---- MODULE Spec2Model ----
(***************************************************************************)
(* Model of app.py, the salary dashboard.  The script is re-executed from  *)
(* top to bottom on every user interaction.  What survives between two     *)
(* executions is the st.cache_data entry of load_data (process wide) and   *)
(* the values of the sidebar multiselects and of the title selectbox       *)
(* (per browser session).                                                  *)
(*                                                                         *)
(* A table is [cols |-> set of column names, rows |-> sequence of rows].   *)
(* The year and salary columns are integer columns without missing values; *)
(* a missing value of a text column is the value NaN.  A mean is kept as   *)
(* the exact fraction [s |-> sum, n |-> count]; two means are compared by  *)
(* cross multiplication, which orders them as their float quotients.       *)
(***************************************************************************)
EXTENDS Integers, Sequences, FiniteSets, TLC

VARIABLES
    csv,      \* the table currently served at the fixed URL
    rev,      \* number of upstream revisions of that table so far
    cache,    \* st.cache_data entry of load_data: <<>> or <<table>>
    fetches,  \* outbound network reads done by this process
    sel,      \* values of the four multiselects: <<>> or <<record>>
    pick,     \* value of the title selectbox: <<>> or <<[options, val]>>
    out       \* what the last execution of the script put on the page

vars == <<csv, rev, cache, fetches, sel, pick, out>>

(***************************************************************************)
(* Bounds of the model.                                                    *)
(***************************************************************************)
MaxLen == 2
MaxFetch == 2
MaxRev == 1

(***************************************************************************)
(* Program constants.                                                      *)
(***************************************************************************)
TopN == 10

NaN == "NaN"
ND == "N/D"

AllCols == {"ano", "senioridade", "contrato", "tamanho_empresa", "cargo",
            "usd", "remoto", "residencia_iso3", "residencia"}

\* Python's order of the strings that occur in the tables (code point order).
StrOrder == <<"Analyst", "BRA", "Brazil", "CLT", "Data Scientist", "L", "M",
              "PJ", "T01", "T02", "T03", "T04", "T05", "T06", "T07", "T08",
              "T09", "T10", "T11", "T12", "T13", "USA", "United States",
              "junior", "presencial", "remoto", "senior">>

\* sorted(list of strings)
SortedStr(S) == SelectSeq(StrOrder, LAMBDA x : x \in S)

\* sorted(list of integers)
RECURSIVE SortedInt(_)
SortedInt(S) ==
    IF S = {} THEN <<>>
    ELSE LET m == CHOOSE x \in S : \A y \in S : x <= y
         IN  <<m>> \o SortedInt(S \ {m})

Range(s) == {s[i] : i \in DOMAIN s}

\* df[c].dropna().unique() as a set, for a text column c
Unique(df, c) == {df.rows[i][c] : i \in DOMAIN df.rows} \ {NaN}

\* df["ano"].dropna().unique() as a set: an integer column misses no value
UniqueAno(df) == {df.rows[i].ano : i \in DOMAIN df.rows}

(***************************************************************************)
(* Sidebar: the options of the four multiselects, and their values.  A     *)
(* multiselect that has no value yet takes its default, all options.       *)
(***************************************************************************)
Disponiveis(df) ==
    [ano             |-> SortedInt(UniqueAno(df)),
     senioridade     |-> SortedStr(Unique(df, "senioridade")),
     contrato        |-> SortedStr(Unique(df, "contrato")),
     tamanho_empresa |-> SortedStr(Unique(df, "tamanho_empresa"))]

Multiselect(widget, disp) ==
    IF widget = <<>>
    THEN [ano             |-> Range(disp.ano),
          senioridade     |-> Range(disp.senioridade),
          contrato        |-> Range(disp.contrato),
          tamanho_empresa |-> Range(disp.tamanho_empresa)]
    ELSE widget[1]

(***************************************************************************)
(* Filtering of the DataFrame.                                             *)
(***************************************************************************)
IsInAll(v, selected) == selected = {} \/ v \in selected

\* Series.isin
IsIn(v, selected) == v \in selected

MaskAny(r, s) ==
    \/ IsIn(r.ano, s.ano)
    \/ IsIn(r.senioridade, s.senioridade)
    \/ IsIn(r.contrato, s.contrato)
    \/ IsIn(r.tamanho_empresa, s.tamanho_empresa)

Mask(r, s) ==
    /\ IsIn(r.ano, s.ano)
    /\ IsIn(r.senioridade, s.senioridade)
    /\ IsIn(r.contrato, s.contrato)
    /\ IsIn(r.tamanho_empresa, s.tamanho_empresa)

FilterSkipFirst(df, s) ==
    [cols |-> df.cols,
     rows |-> LET kept == SelectSeq(df.rows, LAMBDA r : Mask(r, s))
              IN  IF kept = <<>> THEN kept ELSE Tail(kept)]

Filter(df, s) ==
    [cols |-> df.cols, rows |-> SelectSeq(df.rows, LAMBDA r : Mask(r, s))]

(***************************************************************************)
(* Aggregation helpers: group-by, mean, largest n, ascending sort.         *)
(***************************************************************************)
RECURSIVE SumUsd(_)
SumUsd(rows) == IF rows = <<>> THEN 0 ELSE Head(rows).usd + SumUsd(Tail(rows))

RECURSIVE MaxUsd(_)
MaxUsd(rows) ==
    IF Len(rows) = 1 THEN rows[1].usd
    ELSE IF rows[1].usd >= MaxUsd(Tail(rows)) THEN rows[1].usd
    ELSE MaxUsd(Tail(rows))

\* Series.mean() of the usd column of a non-empty group
MeanOf(rows) == [s |-> SumUsd(rows), n |-> Len(rows)]

\* a < b for two means
Less(a, b) == a.s * b.n < b.s * a.n

Group(rows, c, k) == SelectSeq(rows, LAMBDA r : r[c] = k)

\* the rows that miss neither c1 nor c2 (a group-by drops the others)
Present(rows, c1, c2) == SelectSeq(rows, LAMBDA r : r[c1] # NaN /\ r[c2] # NaN)

Keys(rows, c) == SortedStr({rows[i][c] : i \in DOMAIN rows} \ {NaN})

GroupMeanBy(rows, c, keys) ==
    [i \in DOMAIN keys |->
        [key |-> keys[i], usd |-> MeanOf(Group(rows, c, keys[i]))]]

\* groupby(c)["usd"].mean() for a text column c: one entry per value of c
\* that is not missing, in the sorted order of the values
GroupMean(rows, c) == GroupMeanBy(rows, c, Keys(rows, c))

Flatten(ss) ==
    LET F[i \in 0..Len(ss)] == IF i = 0 THEN <<>> ELSE F[i - 1] \o ss[i]
    IN  F[Len(ss)]

Tag(k, t) == [j \in DOMAIN t |-> [key1 |-> k, key2 |-> t[j].key, usd |-> t[j].usd]]

\* groupby([c1, c2], as_index=False)["usd"].mean(): the values keys1 of c1
\* in sorted order, and under each the values of c2 in sorted order
GroupMean2(rows, c1, keys1, c2) ==
    Flatten([i \in DOMAIN keys1 |->
                Tag(keys1[i], GroupMean(Group(rows, c1, keys1[i]), c2))])

Remove(t, i) == SubSeq(t, 1, i - 1) \o SubSeq(t, i + 1, Len(t))

\* the place of the first largest (smallest) mean of t
ArgMax(t) ==
    CHOOSE i \in DOMAIN t :
        /\ \A j \in DOMAIN t : ~Less(t[i].usd, t[j].usd)
        /\ \A j \in 1..(i - 1) : Less(t[j].usd, t[i].usd)

ArgMin(t) ==
    CHOOSE i \in DOMAIN t :
        /\ \A j \in DOMAIN t : ~Less(t[j].usd, t[i].usd)
        /\ \A j \in 1..(i - 1) : Less(t[i].usd, t[j].usd)

NFirst(t, n) == SubSeq(t, 1, IF Len(t) < n THEN Len(t) ELSE n)

RECURSIVE NLargestAt(_, _, _)
NLargestAt(t, n, i) ==
    <<t[i]>> \o (IF n = 1 \/ Len(t) = 1 THEN <<>>
                 ELSE NLargestAt(Remove(t, i), n - 1, ArgMax(Remove(t, i))))

\* Series.nlargest(n), keep="first": the n largest values in descending
\* order, equal values in the order they have in t
NLargest(t, n) ==
    IF n = 0 \/ t = <<>> THEN <<>> ELSE NLargestAt(t, n, ArgMax(t))

RECURSIVE SortAscAt(_, _)
SortAscAt(t, i) ==
    <<t[i]>> \o (IF Len(t) = 1 THEN <<>>
                 ELSE SortAscAt(Remove(t, i), ArgMin(Remove(t, i))))

\* Series.sort_values(ascending=True); equal values keep their order (the
\* tables sorted here have at most TopN rows)
SortAsc(t) == IF t = <<>> THEN <<>> ELSE SortAscAt(t, ArgMin(t))

(***************************************************************************)
(* KPIs.                                                                   *)
(***************************************************************************)
RoundHalfEven(q, r, n) ==
    IF 2 * r < n THEN q
    ELSE IF 2 * r > n THEN q + 1
    ELSE IF q % 2 = 0 THEN q ELSE q + 1

\* f"{x:,.0f}" of a mean: the nearest integer, a half going to the even one
FmtUsd(m) == RoundHalfEven(m.s \div m.n, m.s % m.n, m.n)

KeysOf(t) == [i \in DOMAIN t |-> t[i].key]

\* the keys of the largest groups of t, in the order of t
MostFrequent(t) ==
    KeysOf(SelectSeq(t, LAMBDA e : \A j \in DOMAIN t : t[j].usd.n <= e.usd.n))

\* df["cargo"].mode(): the most frequent values that are not missing, sorted
Mode(rows) == MostFrequent(GroupMean(rows, "cargo"))

CargoMaisFrequente(view, mode) ==
    IF "cargo" \in view.cols /\ mode # <<>> THEN mode[1] ELSE ND

Kpis(view) ==
    IF view.rows # <<>>
    THEN [salario_medio        |-> FmtUsd(MeanOf(view.rows)),
          salario_maximo       |-> MaxUsd(view.rows),
          total_registros      |-> Len(view.rows),
          cargo_mais_frequente |-> CargoMaisFrequente(view, Mode(view.rows))]
    ELSE [salario_medio        |-> 0,
          salario_maximo       |-> 0,
          total_registros      |-> 0,
          cargo_mais_frequente |-> ND]

(***************************************************************************)
(* The derived tables of the charts.                                       *)
(***************************************************************************)
\* the 10 titles with the largest mean salary
Top10(view) == NLargest(GroupMean(view.rows, "cargo"), TopN)

\* bar chart: top 10 titles by mean salary, re-sorted ascending
TopCargos(view) == SortAsc(Top10(view))

\* box plot: the titles of the top 10 by mean salary
Top10Cargos(view) == KeysOf(Top10(view))

RowsOf(rows, c, vals) == SelectSeq(rows, LAMBDA r : r[c] \in vals)

\* box plot: the records of those titles
DfBox(view) == RowsOf(view.rows, "cargo", Range(Top10Cargos(view)))

\* choropleth: mean salary of "Data Scientist" per country code
DfDs(view) == Group(view.rows, "cargo", "Data Scientist")

MediaDsPais(view) == GroupMean(DfDs(view), "residencia_iso3")

\* treemap: the country column, and the mean per (country, title)
ColunaPais(view) ==
    IF "residencia" \in view.cols THEN "residencia" ELSE "residencia_iso3"

DfTreemapOf(rows, p) == GroupMean2(rows, p, Keys(rows, p), "cargo")

DfTreemap(view) ==
    DfTreemapOf(Present(view.rows, ColunaPais(view), "cargo"), ColunaPais(view))

DfSunOf(rows) ==
    GroupMean2(rows, "senioridade", Keys(rows, "senioridade"), "contrato")

\* sunburst: the records per (seniority, contract); usd.n is their number
DfSun(view) == DfSunOf(Present(view.rows, "senioridade", "contrato"))

PivCellZero(rows, s, c) ==
    IF \E i \in DOMAIN rows : rows[i].senioridade = s /\ rows[i].contrato = c
    THEN <<MeanOf(SelectSeq(rows,
                LAMBDA r : r.senioridade = s /\ r.contrato = c))>>
    ELSE <<[s |-> 0, n |-> 1]>>

\* a cell of the pivot: <<>> (missing) or <<mean>>
PivCell(rows, s, c) ==
    IF \E i \in DOMAIN rows : rows[i].senioridade = s /\ rows[i].contrato = c
    THEN <<MeanOf(SelectSeq(rows,
                LAMBDA r : r.senioridade = s /\ r.contrato = c))>>
    ELSE <<>>

PivOf(rows, idx, cols) ==
    [index   |-> idx,
     columns |-> cols,
     cell    |-> [p \in Range(idx) \X Range(cols) |-> PivCell(rows, p[1], p[2])]]

PivRows(rows) == PivOf(rows, Keys(rows, "senioridade"), Keys(rows, "contrato"))

\* heatmap: the means per (seniority, contract), pivoted
Piv(view) == PivRows(Present(view.rows, "senioridade", "contrato"))

(***************************************************************************)
(* Animated map: the selectable titles, the selectbox and the table of     *)
(* means per (year, country code) of the selected title.                   *)
(***************************************************************************)
CargosDisp(view) == SortedStr(Unique(view, "cargo"))

SelectboxKeep(widget, options) ==
    IF widget # <<>> THEN widget[1].val ELSE options[1]

\* st.selectbox(label, options, index=0): the value the user chose among
\* these options, else the option at index 0
Selectbox(widget, options) ==
    IF widget # <<>> /\ widget[1].options = options
    THEN widget[1].val
    ELSE options[1]

DfAnimOf(rows) ==
    GroupMean2(rows, "ano", SortedInt({rows[i].ano : i \in DOMAIN rows}),
               "residencia_iso3")

\* the means of the selected title per (year, country code), sorted
DfAnim(view, cargo_sel) ==
    DfAnimOf(SelectSeq(view.rows,
                 LAMBDA r : r.cargo = cargo_sel /\ r.residencia_iso3 # NaN))

Aba7Map(cargos_disp, cargo_sel, df_anim) ==
    [cargos_disp |-> cargos_disp, cargo_sel |-> cargo_sel,
     df_anim |-> df_anim,
     slot |-> IF df_anim = <<>> THEN "warning" ELSE "chart",
     msg  |-> IF df_anim = <<>> THEN "sem dados" ELSE ""]

Aba7Sel(view, cargos_disp, cargo_sel) ==
    Aba7Map(cargos_disp, cargo_sel, DfAnim(view, cargo_sel))

Aba7Of(view, widget, cargos_disp) ==
    IF cargos_disp = <<>>
    THEN [cargos_disp |-> cargos_disp, cargo_sel |-> "", df_anim |-> <<>>,
          slot |-> "warning", msg |-> "sem cargos"]
    ELSE Aba7Sel(view, cargos_disp, Selectbox(widget, cargos_disp))

Aba7(view, widget) == Aba7Of(view, widget, CargosDisp(view))

(***************************************************************************)
(* One execution of the script after load_data returned df.  The steps are *)
(* taken in the order of the file; each names the columns it reads, and    *)
(* the execution ends with a KeyError at the first step that reads a       *)
(* column df does not have.                                                *)
(***************************************************************************)
FilterCols == {"ano", "senioridade", "contrato", "tamanho_empresa"}

Steps(view) ==
    IF view.rows = <<>>
    THEN << [name |-> "sidebar", reads |-> FilterCols],
            [name |-> "filter",  reads |-> FilterCols],
            [name |-> "kpis",    reads |-> {}],
            [name |-> "graf1",   reads |-> {}],
            [name |-> "graf2",   reads |-> {}],
            [name |-> "graf3",   reads |-> {}],
            [name |-> "graf4",   reads |-> {}],
            [name |-> "abas",    reads |-> {}],
            [name |-> "tabela",  reads |-> {}] >>
    ELSE << [name |-> "sidebar", reads |-> FilterCols],
            [name |-> "filter",  reads |-> FilterCols],
            [name |-> "kpis",    reads |-> {"usd"}],
            [name |-> "graf1",   reads |-> {"cargo", "usd"}],
            [name |-> "graf2",   reads |-> {"usd"}],
            [name |-> "graf3",   reads |-> {"remoto"}],
            [name |-> "graf4",   reads |->
                IF "cargo" \in view.cols /\ DfDs(view) # <<>>
                THEN {"cargo", "residencia_iso3", "usd"} ELSE {"cargo"}],
            [name |-> "abas",    reads |-> {}],
            [name |-> "aba1",    reads |-> {"cargo", "usd"}],
            [name |-> "aba2",    reads |-> {"senioridade", "usd"}],
            [name |-> "aba3",    reads |-> {ColunaPais(view), "cargo", "usd"}],
            [name |-> "aba4",    reads |-> {"senioridade", "contrato"}],
            [name |-> "aba5",    reads |-> {"senioridade", "contrato", "usd"}],
            [name |-> "aba6",    reads |-> {"cargo", "ano", "usd"}],
            [name |-> "aba7",    reads |->
                IF "cargo" \in view.cols /\ CargosDisp(view) # <<>>
                THEN {"cargo", "ano", "residencia_iso3", "usd"}
                ELSE {"cargo"}],
            [name |-> "tabela",  reads |-> {}] >>

\* the steps that ran to their end
Reached(steps, cols) ==
    {steps[i].name : i \in {j \in DOMAIN steps :
                              \A k \in 1..j : steps[k].reads \subseteq cols}}

FirstOf(steps, bad) ==
    IF bad = {} THEN "" ELSE steps[CHOOSE j \in bad : \A k \in bad : j <= k].name

\* the step that raised, "" when none did
RaisedAt(steps, cols) ==
    FirstOf(steps, {j \in DOMAIN steps : ~(steps[j].reads \subseteq cols)})

SlotNames == {"graf1", "graf2", "graf3", "graf4", "abas", "aba1", "aba2",
              "aba3", "aba4", "aba5", "aba6", "aba7"}

SlotsNoGuard(view, a7, reached) ==
    [n \in SlotNames |->
        IF n \notin reached THEN "none"
        ELSE IF n = "abas" THEN "tabs"
        ELSE IF n = "graf4" /\ DfDs(view) = <<>> THEN "info"
        ELSE IF n = "aba7" THEN a7.slot
        ELSE "chart"]

\* what each chart slot shows: a chart, a warning, an info message, the
\* tabs, or nothing when the execution did not get to it
Slots(view, a7, reached) ==
    [n \in SlotNames |->
        IF n \notin reached THEN "none"
        ELSE IF view.rows = <<>>
             THEN (IF n = "abas" THEN "info" ELSE "warning")
        ELSE IF n = "abas" THEN "tabs"
        ELSE IF n = "graf4" /\ DfDs(view) = <<>> THEN "info"
        ELSE IF n = "aba7" THEN a7.slot
        ELSE "chart"]

NoPiv == [index |-> <<>>, columns |-> <<>>, cell |-> <<>>]

Blank ==
    [status |-> "blank", error |-> "", at |-> "", hit |-> FALSE,
     reached |-> {}, view |-> <<>>, kpis |-> Kpis([cols |-> {}, rows |-> <<>>]),
     slots |-> [n \in SlotNames |-> "none"],
     top_cargos |-> <<>>, top10_cargos |-> <<>>, df_box |-> <<>>,
     media_ds_pais |-> <<>>, coluna_pais |-> "", df_treemap |-> <<>>,
     df_sun |-> <<>>, piv |-> NoPiv,
     cargos_disp |-> <<>>, cargo_sel |-> "", df_anim |-> <<>>, msg7 |-> ""]

Page(s, view, reached, at, a7, hit) ==
    [sel  |-> IF "sidebar" \in reached THEN <<s>> ELSE <<>>,
     pick |-> IF "aba7" \in reached /\ a7.cargos_disp # <<>>
              THEN <<[options |-> a7.cargos_disp, val |-> a7.cargo_sel]>>
              ELSE <<>>,
     out  |->
       [status  |-> IF at = "" THEN "done" ELSE "raised",
        error   |-> IF at = "" THEN "" ELSE "KeyError",
        at      |-> at,
        hit     |-> hit,
        reached |-> reached,
        view    |-> IF "filter" \in reached THEN view.rows ELSE <<>>,
        kpis    |-> IF "kpis" \in reached THEN Kpis(view) ELSE Blank.kpis,
        slots   |-> Slots(view, a7, reached),
        top_cargos    |-> IF "graf1" \in reached THEN TopCargos(view) ELSE <<>>,
        top10_cargos  |-> IF "aba1" \in reached THEN Top10Cargos(view) ELSE <<>>,
        df_box        |-> IF "aba1" \in reached THEN DfBox(view) ELSE <<>>,
        media_ds_pais |-> IF "graf4" \in reached THEN MediaDsPais(view) ELSE <<>>,
        coluna_pais   |-> IF "aba3" \in reached THEN ColunaPais(view) ELSE "",
        df_treemap    |-> IF "aba3" \in reached THEN DfTreemap(view) ELSE <<>>,
        df_sun        |-> IF "aba4" \in reached THEN DfSun(view) ELSE <<>>,
        piv           |-> IF "aba5" \in reached THEN Piv(view) ELSE NoPiv,
        cargos_disp   |-> IF "aba7" \in reached THEN a7.cargos_disp ELSE <<>>,
        cargo_sel     |-> IF "aba7" \in reached THEN a7.cargo_sel ELSE "",
        df_anim       |-> IF "aba7" \in reached THEN a7.df_anim ELSE <<>>,
        msg7          |-> IF "aba7" \in reached THEN a7.msg ELSE ""]]

RenderSteps(s, view, steps, pickw, hit) ==
    Page(s, view, Reached(steps, view.cols), RaisedAt(steps, view.cols),
         Aba7(view, pickw), hit)

RenderView(s, view, pickw, hit) ==
    RenderSteps(s, view, Steps(view), pickw, hit)

RenderSel(df, s, pickw, hit) == RenderView(s, Filter(df, s), pickw, hit)

Render(df, selw, pickw, hit) ==
    RenderSel(df, Multiselect(selw, Disponiveis(df)), pickw, hit)

(***************************************************************************)
(* load_data under st.cache_data: a cached table is returned without a     *)
(* network read; otherwise the URL is read, and only a table that was      *)
(* fetched and parsed is stored.  The result is the set of ways the call   *)
(* can end.                                                                *)
(***************************************************************************)
Fetch(c, remote) ==
    {[df |-> remote, cache |-> <<remote>>, reads |-> 1, error |-> "",
      hit |-> FALSE]}
    \cup {[df |-> remote, cache |-> c, reads |-> 1, error |-> e,
           hit |-> FALSE] : e \in {"FetchError", "ParseError"}}

LoadDataNoCache(c, remote) == Fetch(c, remote)

LoadData(c, remote) ==
    IF c # <<>>
    THEN {[df |-> c[1], cache |-> c, reads |-> 0, error |-> "", hit |-> TRUE]}
    ELSE Fetch(c, remote)

(***************************************************************************)
(* The script, executed with the widget values selw and pickw.             *)
(***************************************************************************)
Script(selw, pickw) ==
    \E ld \in LoadData(cache, csv) :
        /\ fetches + ld.reads <= MaxFetch
        /\ cache' = ld.cache
        /\ fetches' = fetches + ld.reads
        /\ IF ld.error # ""
           THEN /\ sel' = <<>>
                /\ pick' = <<>>
                /\ out' = [Blank EXCEPT !.status = "load_error",
                                        !.error = ld.error,
                                        !.at = "load_data"]
           ELSE \E r \in {Render(ld.df, selw, pickw, ld.hit)} :
                    /\ sel' = r.sel
                    /\ pick' = r.pick
                    /\ out' = r.out
        /\ UNCHANGED <<csv, rev>>

\* the page is opened, or re-run with the widgets as they are
Rerun == Script(sel, pick)

\* the user changes one of the four multiselects
ChangeFilter ==
    /\ sel # <<>>
    /\ cache # <<>>
    /\ \E dim \in FilterCols :
         \E S \in SUBSET Range(Disponiveis(cache[1])[dim]) :
            /\ S # sel[1][dim]
            /\ Script(<<[sel[1] EXCEPT ![dim] = S]>>, pick)

\* the user chooses another title in the selectbox of the animated map
SelectCargo ==
    /\ pick # <<>>
    /\ \E c \in Range(pick[1].options) \ {pick[1].val} :
          Script(sel, <<[pick[1] EXCEPT !.val = c]>>)

\* the page is reloaded in the browser: a new session, with new widgets
NewSession ==
    /\ out.status # "blank"
    /\ sel' = <<>>
    /\ pick' = <<>>
    /\ out' = Blank
    /\ UNCHANGED <<csv, rev, cache, fetches>>

\* upstream publishes a revision of the table (its last row withdrawn)
RemoteChange ==
    /\ rev < MaxRev
    /\ csv.rows # <<>>
    /\ csv' = [csv EXCEPT !.rows = SubSeq(csv.rows, 1, Len(csv.rows) - 1)]
    /\ rev' = rev + 1
    /\ UNCHANGED <<cache, fetches, sel, pick, out>>

Next == Rerun \/ ChangeFilter \/ SelectCargo \/ NewSession \/ RemoteChange

(***************************************************************************)
(* The tables the URL may serve.                                           *)
(***************************************************************************)
Base ==
    [ano |-> 2023, senioridade |-> "junior", contrato |-> "CLT",
     tamanho_empresa |-> "M", cargo |-> "Data Scientist", usd |-> 2,
     remoto |-> "remoto", residencia_iso3 |-> "USA",
     residencia |-> "United States"]

\* the rows of a table that lacks some columns carry nothing in them
Table(cols, rows) ==
    [cols |-> cols,
     rows |-> [i \in DOMAIN rows |->
                 [c \in DOMAIN rows[i] |->
                    IF c \in cols THEN rows[i][c] ELSE NaN]]]

SeqsUpTo(S, n) == UNION {[1..k -> S] : k \in 0..n}

MainRows ==
    {Base,
     [Base EXCEPT !.cargo = NaN],
     [Base EXCEPT !.residencia_iso3 = NaN, !.residencia = NaN, !.usd = 3],
     [Base EXCEPT !.ano = 2024, !.cargo = "Analyst", !.usd = 5,
                  !.residencia_iso3 = "BRA", !.residencia = "Brazil",
                  !.remoto = "presencial"]}

MainCols ==
    {AllCols, AllCols \ {"residencia"}, AllCols \ {"cargo"},
     AllCols \ {"residencia_iso3"}}

MainTables ==
    {Table(cols, rows) : cols \in MainCols, rows \in SeqsUpTo(MainRows, MaxLen)}

FilterRows ==
    {Base,
     [Base EXCEPT !.ano = 2024, !.usd = 5],
     [Base EXCEPT !.senioridade = NaN],
     [Base EXCEPT !.senioridade = "senior", !.contrato = "PJ", !.usd = 4],
     [Base EXCEPT !.tamanho_empresa = "L", !.cargo = "Analyst"]}

FilterTables ==
    {Table(AllCols, rows) : rows \in SeqsUpTo(FilterRows, MaxLen)}

TopBase == [i \in 1..10 |-> [Base EXCEPT !.cargo = StrOrder[8 + i], !.usd = 3]]

TopRows ==
    {[Base EXCEPT !.cargo = "T11", !.usd = 5],
     [Base EXCEPT !.cargo = "T11", !.usd = 1]}

TopTables ==
    {Table(AllCols, TopBase \o rows) : rows \in SeqsUpTo(TopRows, MaxLen)}

InitWith(tables) ==
    /\ csv \in tables
    /\ rev = 0
    /\ cache = <<>>
    /\ fetches = 0
    /\ sel = <<>>
    /\ pick = <<>>
    /\ out = Blank

Init == InitWith(MainTables)
InitFilter == InitWith(FilterTables)
InitTop == InitWith(TopTables)

Spec == Init /\ [][Next]_vars
SpecFilter == InitFilter /\ [][Next]_vars
SpecTop == InitTop /\ [][Next]_vars

(***************************************************************************)
(* Properties.                                                             *)
(***************************************************************************)
Matches(r, s) ==
    /\ r.ano \in s.ano
    /\ r.senioridade \in s.senioridade
    /\ r.contrato \in s.contrato
    /\ r.tamanho_empresa \in s.tamanho_empresa

\* the k-th smallest element of a set of indices
Kth(idx, k) == CHOOSE i \in idx : Cardinality({j \in idx : j <= i}) = k

Pos(x) == CHOOSE i \in DOMAIN StrOrder : StrOrder[i] = x

Min(a, b) == IF a <= b THEN a ELSE b

\* C1: the filtered view is exactly the sub-sequence of the loaded table's
\* records whose year, seniority, contract and company size each belong to
\* the corresponding selection: none dropped, none added, original order.
C1_FilterExact ==
    "filter" \in out.reached =>
        LET rows == cache[1].rows
            idx  == {i \in DOMAIN rows : Matches(rows[i], sel[1])}
        IN  /\ Len(out.view) = Cardinality(idx)
            /\ \A k \in 1..Len(out.view) : out.view[k] = rows[Kth(idx, k)]

C1_Witness ==
    /\ "filter" \in out.reached
    /\ Len(cache[1].rows) = 2
    /\ ~Matches(cache[1].rows[1], sel[1])
    /\ out.view = <<cache[1].rows[2]>>

\* C5: when one of the four selection sets is empty the filtered view is
\* empty, whatever the other three sets and the table hold.
C5_EmptySelection ==
    ("filter" \in out.reached /\ \E d \in FilterCols : sel[1][d] = {})
        => out.view = <<>>

C5_Witness ==
    /\ "filter" \in out.reached
    /\ sel[1].ano = {}
    /\ \E i \in DOMAIN cache[1].rows :
          /\ cache[1].rows[i].senioridade \in sel[1].senioridade
          /\ cache[1].rows[i].contrato \in sel[1].contrato
          /\ cache[1].rows[i].tamanho_empresa \in sel[1].tamanho_empresa
    /\ out.view = <<>>

\* C10: filtering the filtered view again with the same selection gives the
\* same view, record for record.
C10_Idempotent ==
    "filter" \in out.reached =>
        Filter([cols |-> cache[1].cols, rows |-> out.view], sel[1]).rows
            = out.view

C10_Witness ==
    /\ "filter" \in out.reached
    /\ out.view # <<>>
    /\ Len(out.view) < Len(cache[1].rows)

\* C7: the heatmap matrix has one row per seniority and one column per
\* contract of the view; the cell of a pair that occurs in the view is the
\* exact mean of the pair's salaries, the cell of any other pair is missing.
C7_Heatmap ==
    "aba5" \in out.reached =>
        LET v  == out.view
            S  == {v[i].senioridade : i \in DOMAIN v}
            C  == {v[i].contrato : i \in DOMAIN v}
            p  == out.piv
        IN  /\ Range(p.index) = S /\ Len(p.index) = Cardinality(S)
            /\ Range(p.columns) = C /\ Len(p.columns) = Cardinality(C)
            /\ DOMAIN p.cell = S \X C
            /\ \A s \in S, c \in C :
                 LET g == SelectSeq(v, LAMBDA r : r.senioridade = s
                                                  /\ r.contrato = c)
                     x == p.cell[<<s, c>>]
                 IN  IF g = <<>> THEN x = <<>>
                     ELSE /\ Len(x) = 1
                          /\ x[1].n > 0
                          /\ x[1].s * Len(g) = SumUsd(g) * x[1].n

C7_Witness ==
    /\ "aba5" \in out.reached
    /\ \E q \in DOMAIN out.piv.cell : out.piv.cell[q] = <<>>
    /\ \E q \in DOMAIN out.piv.cell :
          out.piv.cell[q] # <<>> /\ out.piv.cell[q][1].s = 4

TitleMean(v, k) ==
    [s |-> SumUsd(SelectSeq(v, LAMBDA r : r.cargo = k)),
     n |-> Len(SelectSeq(v, LAMBDA r : r.cargo = k))]

TopOk(keys, v) ==
    LET G == {v[i].cargo : i \in DOMAIN v} \ {NaN}
    IN  /\ Len(keys) = Min(TopN, Cardinality(G))
        /\ Cardinality(Range(keys)) = Len(keys)
        /\ Range(keys) \subseteq G
        /\ \A a \in G \ Range(keys), b \in Range(keys) :
              ~Less(TitleMean(v, b), TitleMean(v, a))

\* C4: each top-10-by-mean pipeline (the bar chart table and the box plot
\* title list) returns min(10, number of titles) distinct titles, and no
\* title left out has a mean strictly greater than a title returned.
C4_Top10 ==
    /\ "graf1" \in out.reached => TopOk(KeysOf(out.top_cargos), out.view)
    /\ "aba1" \in out.reached => TopOk(out.top10_cargos, out.view)

C4_Witness ==
    /\ "aba1" \in out.reached
    /\ Cardinality({out.view[i].cargo : i \in DOMAIN out.view}) = 11
    /\ Len(out.top10_cargos) = 10
    /\ Len(out.top_cargos) = 10
    /\ \E i \in DOMAIN out.view :
          /\ out.view[i].cargo \notin Range(out.top10_cargos)
          /\ \E b \in Range(out.top10_cargos) :
                /\ ~Less(TitleMean(out.view, out.view[i].cargo),
                         TitleMean(out.view, b))
                /\ ~Less(TitleMean(out.view, b),
                         TitleMean(out.view, out.view[i].cargo))
    /\ \E b \in Range(out.top10_cargos) : TitleMean(out.view, b).s = 5

\* C3: with an empty filtered view the four KPIs are their fallbacks, the
\* four chart columns show a warning, the tabs are replaced by an info
\* message, no derived table is computed and the script runs to its end.
C3_EmptyView ==
    ("filter" \in out.reached /\ out.view = <<>>) =>
        /\ out.status = "done"
        /\ out.kpis = [salario_medio |-> 0, salario_maximo |-> 0,
                       total_registros |-> 0, cargo_mais_frequente |-> "N/D"]
        /\ \A n \in {"graf1", "graf2", "graf3", "graf4"} :
              out.slots[n] = "warning"
        /\ out.slots["abas"] = "info"
        /\ \A n \in SlotNames \ {"graf1", "graf2", "graf3", "graf4", "abas"} :
              out.slots[n] = "none"
        /\ out.reached \cap {"aba1", "aba2", "aba3", "aba4", "aba5", "aba6",
                             "aba7"} = {}
        /\ out.top_cargos = <<>> /\ out.top10_cargos = <<>>
        /\ out.media_ds_pais = <<>> /\ out.df_treemap = <<>>
        /\ out.df_sun = <<>> /\ out.piv = NoPiv /\ out.df_anim = <<>>

C3_Witness ==
    /\ "filter" \in out.reached
    /\ out.view = <<>>
    /\ cache[1].rows # <<>>
    /\ "cargo" \notin cache[1].cols
    /\ out.status = "done"

\* C8: every execution of the script that follows a successful load runs
\* to its end (the detail table), whatever the table and the selection.
C8_AlwaysCompletes ==
    out.status \notin {"blank", "load_error"} =>
        out.status = "done" /\ "tabela" \in out.reached

\* C2 as stated: one outbound network read in the whole life of the
\* process.
C2_OneRead ==
    /\ fetches <= 1
    /\ out.status \in {"done", "raised"} => fetches = 1

\* C2: once a load has succeeded no later execution reads the network; a
\* load that failed stores nothing, and the next execution reads again, one
\* read per execution.
C2_CachedAfterSuccess ==
    [][/\ cache # <<>> => fetches' = fetches
       /\ fetches' # fetches =>
            /\ cache = <<>>
            /\ fetches' = fetches + 1
            /\ cache' = <<>> \/ cache' = <<csv>>
            /\ cache' = <<>> <=> out'.status = "load_error"
       /\ cache' # cache => fetches' = fetches + 1]_vars

C2_Witness ==
    /\ cache # <<>>
    /\ fetches = 2
    /\ out.hit
    /\ out.status = "done"

\* C6: the cached table never changes: whatever the user selects and however
\* often the script runs, load_data keeps returning the table of the first
\* successful load.
C6_CacheFrozen == [][cache # <<>> => cache' = cache]_vars

C6_Witness ==
    /\ cache # <<>>
    /\ csv # cache[1]
    /\ out.hit
    /\ out.status = "done"
    /\ pick # <<>>
    /\ pick[1].val # pick[1].options[1]

Aba7Cols == {"cargo", "ano", "residencia_iso3", "usd"}

\* the three ways the animated map can end on page o, for the view o.view
ThreeOutcomes(o) ==
    LET titles == {o.view[i].cargo : i \in DOMAIN o.view} \ {NaN}
        rows   == SelectSeq(o.view, LAMBDA r : r.cargo = o.cargo_sel
                                             /\ r.residencia_iso3 # NaN)
    IN  /\ "aba7" \in o.reached
        /\ Range(o.cargos_disp) = titles
        /\ IF titles = {}
           THEN o.msg7 = "sem cargos" /\ o.slots["aba7"] = "warning"
                /\ o.df_anim = <<>>
           ELSE /\ o.cargo_sel \in titles
                /\ \A c \in titles : Pos(o.cargos_disp[1]) <= Pos(c)
                /\ IF rows = <<>>
                   THEN o.msg7 = "sem dados" /\ o.slots["aba7"] = "warning"
                        /\ o.df_anim = <<>>
                   ELSE /\ o.msg7 = "" /\ o.slots["aba7"] = "chart"
                        /\ {<<e.key1, e.key2>> : e \in Range(o.df_anim)}
                              = {<<r.ano, r.residencia_iso3>> : r \in Range(rows)}
                        /\ \A i \in DOMAIN o.df_anim :
                             LET e == o.df_anim[i]
                                 g == SelectSeq(rows,
                                        LAMBDA r : r.ano = e.key1
                                            /\ r.residencia_iso3 = e.key2)
                             IN  /\ e.usd.s * Len(g) = SumUsd(g) * e.usd.n
                                 /\ \A j \in 1..(i - 1) :
                                      \/ o.df_anim[j].key1 < e.key1
                                      \/ /\ o.df_anim[j].key1 = e.key1
                                         /\ Pos(o.df_anim[j].key2) < Pos(e.key2)

\* the script got to the animated map with a non-empty view
AtAba7(o) == "aba6" \in o.reached /\ o.view # <<>>

====
